---- MODULE Spec2Model ----
(***************************************************************************)
(* Verification model of the tennis video analytics pipeline.              *)
(*                                                                         *)
(* Part 1: AnalyticsEngine.identify_rallies                                *)
(*         (services/ml-pipeline/app/processors/analytics_engine.py),      *)
(*         the loop over the shot list, one action per loop iteration and  *)
(*         one for the block after the loop.                               *)
(* Part 2: EnhancedPlayerTracker                                           *)
(*         (services/ml-pipeline/app/processors/enhanced_player_tracker.py)*)
(*         one action per track() call.                                    *)
(* Part 3: HighlightsGenerator.identify_highlights                         *)
(*         (services/ml-pipeline/app/services/highlights_generator.py),    *)
(*         one action for the call; its times are in ticks of              *)
(*         1/TicksPerSecond seconds.                                       *)
(* Part 4: EnhancedAnalyticsEngine.identify_rallies                        *)
(*         (services/ml-pipeline/app/processors/                           *)
(*         enhanced_analytics_engine.py), one action per loop iteration    *)
(*         and one for the block after the loop.                           *)
(* Part 5: VideoProcessor.process                                          *)
(*         (services/ml-pipeline/app/processors/video_processor.py) as     *)
(*         called by the /process endpoint (services/ml-pipeline/main.py), *)
(*         with the basic PlayerTracker (player_tracker.py) it wires: one  *)
(*         action per step of process(), one per iteration of its frame    *)
(*         loop. Its timestamps are in milliseconds.                       *)
(*                                                                         *)
(* Times are whole seconds. Python's None is the string "None" for string  *)
(* fields and 0 for winner_player; a dictionary key that is not set is     *)
(* NoKey (numbers) or "unset" (ended_by).                                  *)
(***************************************************************************)
EXTENDS Integers, Sequences, FiniteSets

VARIABLES
    \* ---- identify_rallies ----
    shots,                \* the part of the argument list the loop has consumed
    rallies,              \* the local list `rallies`
    rally_shots,          \* per closed rally, the indices its "shots" list held when it was deleted
    current_rally,        \* the local `current_rally` (NoRally for None)
    previous_serve_side,  \* the local `previous_serve_side`
    previous_server,      \* the local `previous_server` (0 for None)
    returned,             \* TRUE once identify_rallies has returned `rallies`
    run,                  \* 1 in the first call of identify_rallies, 2 in a second call
    shot_list,            \* in the second call: the list both calls are given
    first_rallies,        \* in the second call: what the first call returned
    \* ---- EnhancedPlayerTracker ----
    detection_model,      \* whether self.detection_model was loaded by __init__
    calls,                \* number of track() calls made
    tracks,               \* self.tracks: track_id -> list of detections
    player_mapping,       \* self.player_mapping: track_id -> player number
    mapping_order,        \* the keys of self.player_mapping in insertion order
    last_positions,       \* self.last_positions: track_id -> last center
    next_track_id,        \* self.next_track_id
    clock,                \* timestamp of the latest track() call
    detections,           \* the list the latest track() call returned
    \* ---- HighlightsGenerator ----
    highlight_shots,      \* the argument `shots` of identify_highlights
    clips,                \* self.clips
    identified,           \* TRUE once identify_highlights has returned
    \* ---- EnhancedAnalyticsEngine.identify_rallies ----
    enh_shots,            \* the part of the argument list the loop has consumed
    enh_rallies,          \* the local list `rallies`
    enh_current_rally,    \* the local `current_rally` (NoEnhRally for None)
    enh_returned,         \* TRUE once the function has returned `rallies`
    \* ---- VideoProcessor.process behind the /process endpoint ----
    pc,                   \* the step of process() that runs next, or "returned", "raised"
    video,                \* the file: whether it opens, its fps, its number of frames
    match_id,             \* self.match_id
    stroke_model,         \* whether shot_classifier.stroke_model was loaded
    person_model,         \* whether player_tracker.detection_model was loaded
    cap_pos,              \* index of the frame self.cap decodes next
    frame_number,         \* the local frame_number
    player_calls,         \* the calls player_tracker.track received: frame and timestamp
    ball_calls,           \* the calls ball_tracker.track received: frame and timestamp
    frames,               \* self.frames, each frame by its index in the video
    frame_timestamps,     \* self.frame_timestamps
    player_tracks,        \* self.player_tracks
    classification,       \* self.shots, by how and from which stored frames it was made
    analytics,            \* the dictionary `analytics` (NoAnalytics before step 5)
    highlights_outcome,   \* how generate_from_analytics ended, and whether the file exists
    api_outcome,          \* how the POST of _save_results ended
    posts,                \* the payloads handed to the persistence API, in order
    failures,             \* the steps in which a collaborator raised
    response,             \* what the /process endpoint answered
    \* ---- EnhancedShotClassifier.classify_shots ----
    cls_pc,               \* "idle", "batches" (inside the loop over the batches), "returned"
    cls_model,            \* whether self.stroke_model was loaded
    cls_frames,           \* len(frames), which is also len(frame_timestamps)
    cls_i,                \* the loop variable i, index of the next batch's first frame
    cls_sent,             \* the values of i whose batch was given to the stroke model
    cls_raised,           \* the values of i on whose batch the stroke model raised
    cls_shots,            \* the local list `shots`, then the list returned
    \* ---- EnhancedBallTracker ----
    ball_model,           \* whether self.detection_model was loaded by __init__
    ball_n,               \* number of track() calls made; the n-th call has timestamp n
    total_frames,         \* self.total_frames
    detection_count,      \* self.detection_count
    trajectory_history,   \* self.trajectory_history
    kalman_vy,            \* self.kalman_filter.state[3, 0], the vertical velocity
    ball_detection,       \* the BallDetection the latest track() call returned
    \* ---- API: one match, its dispatching task and save_ml_pipeline_results ----
    m_status,             \* matches.status as committed
    m_error,              \* matches.error_message as committed ("None" when not set)
    m_videos,             \* number of committed match_videos rows
    stats_row,            \* the committed match_stats row: 0 for none, else the payload it holds
    rally_rows,           \* the committed rows of rallies
    shot_rows,            \* the committed rows of shots
    staged,               \* what the session of a save in flight sees before it commits
    uploads,              \* number of upload_video calls, each starting a processing run
    task_pc,              \* the dispatching task: "none", "queued", "waiting", "done"
    task_failed,          \* TRUE from the task marking FAILED until a new run starts
    ml_pc,                \* the ML service: "idle", "processing", "saving", "answer 200", "answer 500"
    save_pc,              \* the step save_ml_pipeline_results is at, or "idle"
    save_payload,         \* the analytics_data of the save in flight or of the latest save
    save_result,          \* what the latest save returned: "none", "True", "False"
    save_raised_in        \* the step in which the latest save raised, or "none"

rallyVars == <<shots, rallies, rally_shots, current_rally, previous_serve_side,
               previous_server, returned, run, shot_list, first_rallies>>
trackerVars == <<detection_model, calls, tracks, player_mapping, mapping_order,
                 last_positions, next_track_id, clock, detections>>
highlightVars == <<highlight_shots, clips, identified>>
enhancedVars == <<enh_shots, enh_rallies, enh_current_rally, enh_returned>>
processVars == <<pc, video, match_id, stroke_model, person_model, cap_pos, frame_number,
                 player_calls, ball_calls, frames, frame_timestamps, player_tracks,
                 classification, analytics, highlights_outcome, api_outcome, posts,
                 failures, response>>
classifierVars == <<cls_pc, cls_model, cls_frames, cls_i, cls_sent, cls_raised, cls_shots>>
ballVars == <<ball_model, ball_n, total_frames, detection_count, trajectory_history,
              kalman_vy, ball_detection>>
backendVars == <<m_status, m_error, m_videos, stats_row, rally_rows, shot_rows, staged,
                 uploads, task_pc, task_failed, ml_pc, save_pc, save_payload, save_result,
                 save_raised_in>>
vars == <<rallyVars, trackerVars, highlightVars, enhancedVars, processVars, classifierVars,
          ballVars, backendVars>>

\* what a step of one component leaves alone
exceptRally == <<trackerVars, highlightVars, enhancedVars, processVars, classifierVars,
                 ballVars, backendVars>>
exceptTracker == <<rallyVars, highlightVars, enhancedVars, processVars, classifierVars,
                   ballVars, backendVars>>
exceptHighlights == <<rallyVars, trackerVars, enhancedVars, processVars, classifierVars,
                      ballVars, backendVars>>
exceptEnhanced == <<rallyVars, trackerVars, highlightVars, processVars, classifierVars,
                    ballVars, backendVars>>
exceptProcess == <<rallyVars, trackerVars, highlightVars, enhancedVars, classifierVars,
                   ballVars, backendVars>>
exceptClassifier == <<rallyVars, trackerVars, highlightVars, enhancedVars, processVars,
                      ballVars, backendVars>>
exceptBall == <<rallyVars, trackerVars, highlightVars, enhancedVars, processVars,
                classifierVars, backendVars>>
exceptBackend == <<rallyVars, trackerVars, highlightVars, enhancedVars, processVars,
                   classifierVars, ballVars>>

----------------------------------------------------------------------------
(* Bounds of the model *)

\* longest shot list given to identify_rallies
MaxShots == 2
\* number of frames given to EnhancedPlayerTracker.track
MaxCalls == 3
\* width in pixels of the video's frames (frame.shape[1])
ImageWidth == 24
\* longest shot list given to identify_highlights
MaxHighlightShots == 2
\* ticks per second of the times given to identify_highlights
TicksPerSecond == 2
\* longest shot list given to EnhancedAnalyticsEngine.identify_rallies
MaxEnhancedShots == 3
\* largest number of frames of the video given to VideoProcessor
MaxFrames == 7
\* largest number of stored frames given to classify_shots
MaxStoredFrames == 17
\* number of frames given to EnhancedBallTracker.track
MaxBallCalls == 62
\* number of frames, from the first, in which a detection method can find the ball
VariedCalls == 4
\* number of videos uploaded for the match, each starting a processing run
MaxRuns == 2
\* largest number of rallies, and of shots, in the analytics_data of a save
MaxRows == 2

----------------------------------------------------------------------------
(* Program constants *)

\* analytics_engine.py:99   time_since_last < 5.0
RallyGap == 5
\* analytics_engine.py:52   time_since_last > 10.0
ServeGap == 10

\* enhanced_player_tracker.py:149   timestamp - last_time > 1.0
StaleAfter == 1

\* highlights_generator.py:47-48   winner: timestamp - 5.0 .. timestamp + 2.0
WinnerBefore == 5
WinnerAfter == 2
\* highlights_generator.py:61-62   ace: timestamp - 2.0 .. timestamp + 3.0
AceBefore == 2
AceAfter == 3
\* highlights_generator.py:75-76   smash: timestamp - 2.0 .. timestamp + 2.0
SmashBefore == 2
SmashAfter == 2
\* highlights_generator.py:97   clip.start_time <= last.end_time + 1.0
MergeGap == 1

\* enhanced_analytics_engine.py:59   time_since_last < 5.0
EnhancedRallyGap == 5

\* video_processor.py:62   frame_sample_rate = 5
FrameSampleRate == 5
\* enhanced_shot_classifier.py:178   batch_size = 8
BatchSize == 8

\* enhanced_ball_tracker.py:219   len(self.trajectory_history) > 60
HistoryLimit == 60
\* enhanced_ball_tracker.py:358   vy_change > 30
BounceThreshold == 30

\* a key the dictionary does not hold yet
NoKey == -1
\* speed = None
NoSpeed == -1

TerminalOutcomes == {"out", "net", "winner", "ace"}
WinnerOutcomes == {"winner", "ace"}
ErrorOutcomes == {"out", "net"}

----------------------------------------------------------------------------
(* The shots given to identify_rallies.                                    *)
(* Two classes of shot object reach it: SimpleShot, which has serve_side   *)
(* and is_point_start, and the shot classifier's Shot, which has neither.  *)

Players == {1, 2}
\* gaps between consecutive shots: inside the 5 s window, on its edge, on the
\* edge of the 10 s serve window and beyond it
Gaps == {1, 5, 10, 11}
FirstTimes == {10}

SimpleShots(t) ==
    \* serves: any side or none, flagged or not as the start of a point
    [cls : {"SimpleShot"}, player_number : Players, timestamp : {t},
     shot_type : {"serve"}, outcome : {"in", "ace"},
     serve_side : {"deuce", "ad", "None"}, is_point_start : BOOLEAN]
    \cup
    \* rally shots: serve_side and is_point_start keep their defaults
    [cls : {"SimpleShot"}, player_number : Players, timestamp : {t},
     shot_type : {"forehand"}, outcome : {"in", "winner", "out", "net"},
     serve_side : {"None"}, is_point_start : {FALSE}]

ClassifierShots(t) ==
    [cls : {"Shot"}, player_number : Players, timestamp : {t},
     shot_type : {"serve"}, outcome : {"None", "ace"},
     serve_side : {"None"}, is_point_start : {FALSE}]
    \cup
    [cls : {"Shot"}, player_number : Players, timestamp : {t},
     shot_type : {"forehand"}, outcome : {"None", "winner", "out", "net"},
     serve_side : {"None"}, is_point_start : {FALSE}]

\* the shots that may follow the consumed list: same class of object, later time
NextShots ==
    IF shots = <<>>
    THEN UNION {SimpleShots(t) \cup ClassifierShots(t) : t \in FirstTimes}
    ELSE LET last == shots[Len(shots)]
         IN  UNION {IF last.cls = "SimpleShot"
                    THEN SimpleShots(last.timestamp + g)
                    ELSE ClassifierShots(last.timestamp + g) : g \in Gaps}

\* hasattr(shot, 'serve_side'), hasattr(shot, 'is_point_start')
HasServeAttrs(shot) == shot.cls = "SimpleShot"

\* truth value of shot.serve_side
Truthy(side) == side # "None"

----------------------------------------------------------------------------
(* identify_rallies: helpers, in the order the loop body uses them *)

\* current_rally = None
NoRally ==
    [start_time |-> 0, shots |-> <<>>, player1_shots |-> 0, player2_shots |-> 0,
     end_time |-> NoKey, winner_player |-> NoKey, ended_by |-> "unset"]

\* current_rally["shots"][-1].timestamp, the list holding indices into `all`
LastTimestamp(all, cr) == all[cr.shots[Len(cr.shots)]].timestamp

\* lines 31-53: is_new_point for `shot`, the open rally `cr` and the serve tracking
IsNewPoint(all, shot, cr, pss, psv) ==
    IF HasServeAttrs(shot) /\ shot.is_point_start
    THEN TRUE
    ELSE IF shot.shot_type = "serve" /\ HasServeAttrs(shot) /\ Truthy(shot.serve_side)
    THEN IF pss # "None" /\ psv # 0
         THEN shot.serve_side # pss \/ shot.player_number # psv
         ELSE TRUE
    ELSE IF shot.shot_type = "serve"
    THEN IF cr # NoRally /\ cr.shots # <<>>
         THEN shot.timestamp - LastTimestamp(all, cr) > ServeGap
         ELSE FALSE
    ELSE FALSE

\* lines 33-47: the branch that updates previous_serve_side / previous_server is
\* the second one, reached only when the shot is not flagged is_point_start
UpdatesServeTracking(shot) ==
    /\ ~(HasServeAttrs(shot) /\ shot.is_point_start)
    /\ shot.shot_type = "serve" /\ HasServeAttrs(shot) /\ Truthy(shot.serve_side)

\* variant of WinnerByCount: a tie goes to player 1 (>= for >)
WinnerByCount_TieToPlayer1(p1, p2) ==
    IF p1 >= p2 THEN 1 ELSE 2

\* lines 64-69, 112-117, 150-155: winner by shot count, 0 for None
WinnerByCount(p1, p2) ==
    IF p1 > p2 THEN 1 ELSE IF p2 > p1 THEN 2 ELSE 0

\* variant of CloseRally: the end_time a terminal shot has set is kept
CloseRally_EndAtOutcome(all, cr, endedBy) ==
    LET end_time == IF cr.end_time # NoKey THEN cr.end_time ELSE LastTimestamp(all, cr)
    IN  [start_time     |-> cr.start_time,
         end_time       |-> end_time,
         duration       |-> end_time - cr.start_time,
         shot_count     |-> Len(cr.shots),
         player1_shots  |-> cr.player1_shots,
         player2_shots  |-> cr.player2_shots,
         winner_player  |-> WinnerByCount(cr.player1_shots, cr.player2_shots),
         ended_by       |-> endedBy]

\* lines 58-72, 108-120: the rally as it is appended to `rallies`
CloseRally(all, cr, endedBy) ==
    [start_time     |-> cr.start_time,
     end_time       |-> LastTimestamp(all, cr),
     duration       |-> LastTimestamp(all, cr) - cr.start_time,
     shot_count     |-> Len(cr.shots),
     player1_shots  |-> cr.player1_shots,
     player2_shots  |-> cr.player2_shots,
     winner_player  |-> WinnerByCount(cr.player1_shots, cr.player2_shots),
     ended_by       |-> endedBy]

\* variant of NewRally: the rally's first shot is not counted for its player
NewRally_FirstShotNotCounted(shot, k) ==
    [start_time |-> shot.timestamp, shots |-> <<k>>,
     player1_shots |-> 0, player2_shots |-> 0,
     end_time |-> NoKey, winner_player |-> NoKey, ended_by |-> "unset"]

\* lines 78-83, 124-129: a new rally holding the shot at index k
NewRally(shot, k) ==
    [start_time |-> shot.timestamp, shots |-> <<k>>,
     player1_shots |-> IF shot.player_number = 1 THEN 1 ELSE 0,
     player2_shots |-> IF shot.player_number = 2 THEN 1 ELSE 0,
     end_time |-> NoKey, winner_player |-> NoKey, ended_by |-> "unset"]

\* lines 90-97: is_second_serve; prev is shots[i-1]
IsSecondServe(shot, prev) ==
    /\ shot.shot_type = "serve"
    /\ prev.shot_type = "serve"
    /\ prev.player_number = shot.player_number
    /\ HasServeAttrs(shot) /\ HasServeAttrs(prev)
    /\ shot.serve_side = prev.serve_side

\* variant of RallyContinues: <= for <
RallyContinues_Inclusive(time_since_last, is_second_serve) ==
    time_since_last <= RallyGap \/ is_second_serve

\* line 99: the rally continues
RallyContinues(time_since_last, is_second_serve) ==
    time_since_last < RallyGap \/ is_second_serve

\* variant of AppendShot: the shot is counted but not appended to the list
AppendShot_NotListed(cr, shot, k) ==
    [cr EXCEPT !.player1_shots = IF shot.player_number = 1 THEN @ + 1 ELSE @,
               !.player2_shots = IF shot.player_number = 1 THEN @ ELSE @ + 1]

\* lines 101-105: the shot at index k joins the open rally
AppendShot(cr, shot, k) ==
    [cr EXCEPT !.shots = Append(@, k),
               !.player1_shots = IF shot.player_number = 1 THEN @ + 1 ELSE @,
               !.player2_shots = IF shot.player_number = 1 THEN @ ELSE @ + 1]

\* lines 132-141: a terminal outcome marks the open rally, which stays open
ApplyOutcome(cr, shot) ==
    IF shot.outcome \in TerminalOutcomes /\ cr # NoRally
    THEN IF shot.outcome \in WinnerOutcomes
         THEN [cr EXCEPT !.end_time = shot.timestamp,
                         !.winner_player = shot.player_number,
                         !.ended_by = "winner"]
         ELSE IF shot.outcome \in ErrorOutcomes
         THEN [cr EXCEPT !.end_time = shot.timestamp,
                         !.winner_player = IF shot.player_number = 1 THEN 2 ELSE 1,
                         !.ended_by = "error"]
         ELSE [cr EXCEPT !.end_time = shot.timestamp]
    ELSE cr

\* lines 157-158: ended_by of the final rally
FinalEndedBy(cr) == IF cr.ended_by = "unset" THEN "match_end" ELSE cr.ended_by

----------------------------------------------------------------------------
(* identify_rallies: the actions *)

RallyInit ==
    /\ shots = <<>>
    /\ rallies = <<>>
    /\ rally_shots = <<>>
    /\ current_rally = NoRally
    /\ previous_serve_side = "None"
    /\ previous_server = 0
    /\ returned = FALSE
    /\ run = 1
    /\ shot_list = <<>>
    /\ first_rallies = <<>>

\* lines 29-141: one iteration of the loop, for the next shot of the list
ProcessShot(shot) ==
    /\ ~returned
    /\ Len(shots) < MaxShots
    /\ LET all == Append(shots, shot)
           k == Len(shots) + 1
           is_new_point == IsNewPoint(all, shot, current_rally,
                                      previous_serve_side, previous_server)
           \* lines 56-74
           ends == is_new_point /\ current_rally # NoRally
           rallies1 == IF ends
                       THEN Append(rallies, CloseRally(all, current_rally, "point_end"))
                       ELSE rallies
           members1 == IF ends THEN Append(rally_shots, current_rally.shots)
                       ELSE rally_shots
           cr1 == IF ends THEN NoRally ELSE current_rally
           \* lines 77-129
           stops == /\ cr1 # NoRally
                    /\ ~RallyContinues(shot.timestamp - LastTimestamp(all, cr1),
                                       k > 1 /\ IsSecondServe(shot, all[k - 1]))
           rallies2 == IF stops
                       THEN Append(rallies1, CloseRally(all, cr1, "play_stopped"))
                       ELSE rallies1
           members2 == IF stops THEN Append(members1, cr1.shots) ELSE members1
           cr2 == IF cr1 = NoRally \/ stops
                  THEN NewRally(shot, k)
                  ELSE AppendShot(cr1, shot, k)
       IN  /\ shots' = all
           /\ rallies' = rallies2
           /\ rally_shots' = members2
           /\ current_rally' = ApplyOutcome(cr2, shot)
           /\ IF UpdatesServeTracking(shot)
              THEN /\ previous_serve_side' = shot.serve_side
                   /\ previous_server' = shot.player_number
              ELSE UNCHANGED <<previous_serve_side, previous_server>>
           /\ UNCHANGED <<returned, run, shot_list, first_rallies>>
    /\ UNCHANGED exceptRally

\* lines 143-162: the list ends here; add the final rally and return
ReturnRallies ==
    /\ ~returned
    /\ IF current_rally # NoRally /\ current_rally.shots # <<>>
       THEN /\ rallies' = Append(rallies,
                                 CloseRally(shots, current_rally, FinalEndedBy(current_rally)))
            /\ rally_shots' = Append(rally_shots, current_rally.shots)
       ELSE UNCHANGED <<rallies, rally_shots>>
    /\ returned' = TRUE
    /\ UNCHANGED <<shots, current_rally, previous_serve_side, previous_server>>
    /\ UNCHANGED <<run, shot_list, first_rallies>>
    /\ UNCHANGED exceptRally

\* variant of StartCall: the serve tracking of the call before is kept
StartCall_KeepsServeTracking ==
    /\ rallies' = <<>>
    /\ rally_shots' = <<>>
    /\ current_rally' = NoRally
    /\ UNCHANGED <<previous_serve_side, previous_server>>

\* lines 24-27: the locals at the start of a call
StartCall ==
    /\ rallies' = <<>>
    /\ rally_shots' = <<>>
    /\ current_rally' = NoRally
    /\ previous_serve_side' = "None"
    /\ previous_server' = 0

\* identify_rallies is called again on the list it was given before
CallAgain ==
    /\ returned /\ run = 1
    /\ run' = 2
    /\ shot_list' = shots
    /\ first_rallies' = rallies
    /\ shots' = <<>>
    /\ returned' = FALSE
    /\ StartCall
    /\ UNCHANGED exceptRally

\* line 29: the next shot of the list, in the second call
ProcessListedShot ==
    /\ run = 2
    /\ Len(shots) < Len(shot_list)
    /\ ProcessShot(shot_list[Len(shots) + 1])

\* lines 143-162: the list is exhausted, in the second call
ReturnListedRallies ==
    /\ run = 2
    /\ Len(shots) = Len(shot_list)
    /\ ReturnRallies

----------------------------------------------------------------------------
(* EnhancedPlayerTracker.                                                  *)
(* A frame is what the detector returns for it: the person boxes, each     *)
(* with the detector's track id (0 for box.id = None) and the x of its     *)
(* center; the y of every box is the same, so a distance is |dx|.          *)
(* Distances are in pixels (the code scales them by pixel_to_meter).       *)

DetectorIds == {1, 2}
Centers == {6, 18}
TimeSteps == {1, 2}

\* the detector gives every box of a frame an id, or none of them
Frames ==
    {<<>>}
    \cup {<<[id |-> t, center |-> c]>> : t \in DetectorIds \cup {0}, c \in Centers}
    \cup {<<[id |-> t1, center |-> c1], [id |-> t2, center |-> c2]>> :
            t1 \in DetectorIds, t2 \in DetectorIds, c1 \in Centers, c2 \in Centers}
    \cup {<<[id |-> 0, center |-> c1], [id |-> 0, center |-> c2]>> :
            c1 \in Centers, c2 \in Centers}

RealFrames == {f \in Frames : Len(f) < 2 \/ f[1].id = 0 \/ f[1].id # f[2].id}

\* d[k] = v on a dictionary
Put(d, k, v) == [x \in DOMAIN d \cup {k} |-> IF x = k THEN v ELSE d[x]]

\* del d[k] for every k of ks
Del(d, ks) == [x \in DOMAIN d \ ks |-> d[x]]

Abs(x) == IF x < 0 THEN -x ELSE x

\* sum(speeds)
RECURSIVE SeqSum(_)
SeqSum(seq) == IF seq = <<>> THEN 0 ELSE Head(seq) + SeqSum(Tail(seq))

\* max(speeds), of a list that is not empty
SeqMax(seq) == CHOOSE m \in {seq[n] : n \in 1..Len(seq)} :
                   \A n \in 1..Len(seq) : seq[n] <= m

\* variant of PlayerNumberFor: the frame half decides on every call
PlayerNumberFor_BySideEachTime(mapping, track_id, center_x) ==
    IF 2 * center_x < ImageWidth THEN 1 ELSE 2

\* lines 156-180: the number _assign_player_number returns
PlayerNumberFor(mapping, track_id, center_x) ==
    IF track_id \in DOMAIN mapping
    THEN mapping[track_id]
    ELSE LET side == IF 2 * center_x < ImageWidth THEN 1 ELSE 2
             existing_players == {mapping[t] : t \in DOMAIN mapping}
         IN  IF Cardinality(existing_players) = 1 /\ side \in existing_players
             THEN IF side = 1 THEN 2 ELSE 1
             ELSE side

\* lines 188-212: _calculate_speed
CalculateSpeed(trks, positions, track_id, center, timestamp) ==
    IF track_id \notin DOMAIN positions \/ trks[track_id] = <<>>
    THEN NoSpeed
    ELSE LET dt == timestamp - trks[track_id][Len(trks[track_id])].timestamp
         IN  IF dt <= 0 THEN NoSpeed
             ELSE Abs(center - positions[track_id]) \div dt

\* lines 214-226: _update_distance
UpdateDistance(positions, track_id, center) ==
    IF track_id \notin DOMAIN positions THEN 0
    ELSE Abs(center - positions[track_id])

\* lines 97-143: one box of the frame
TrackBox(st, box, timestamp) ==
    LET track_id == IF box.id = 0 THEN st.next_track_id ELSE box.id
        trks == IF track_id \in DOMAIN st.tracks THEN st.tracks
                ELSE Put(st.tracks, track_id, <<>>)
        speed == CalculateSpeed(trks, st.last_positions, track_id, box.center, timestamp)
        distance == UpdateDistance(st.last_positions, track_id, box.center)
        player_number == PlayerNumberFor(st.player_mapping, track_id, box.center)
        history == trks[track_id]
        detection ==
            [player_id |-> player_number, track_id |-> track_id,
             timestamp |-> timestamp, center |-> box.center, speed |-> speed,
             distance_traveled |->
                 IF history # <<>>
                 THEN history[Len(history)].distance_traveled + distance
                 ELSE distance]
    IN  [tracks |-> Put(trks, track_id, Append(history, detection)),
         player_mapping |-> Put(st.player_mapping, track_id, player_number),
         mapping_order |-> IF track_id \in DOMAIN st.player_mapping
                           THEN st.mapping_order
                           ELSE Append(st.mapping_order, track_id),
         last_positions |-> Put(st.last_positions, track_id, box.center),
         next_track_id |-> IF box.id = 0 THEN st.next_track_id + 1 ELSE st.next_track_id,
         current_track_ids |-> st.current_track_ids \cup {track_id},
         detections |-> Append(st.detections, detection)]

\* lines 94-143: the boxes of the frame, in the detector's order
RECURSIVE TrackBoxes(_, _, _)
TrackBoxes(st, boxes, timestamp) ==
    IF boxes = <<>> THEN st
    ELSE TrackBoxes(TrackBox(st, Head(boxes), timestamp), Tail(boxes), timestamp)

\* variant of StaleTracks: a track is removed as soon as the timeout is reached
StaleTracks_AtTimeout(trks, current_track_ids, timestamp) ==
    {tid \in DOMAIN trks \ current_track_ids :
        timestamp - (IF trks[tid] # <<>> THEN trks[tid][Len(trks[tid])].timestamp ELSE 0)
            >= StaleAfter}

\* lines 146-149: the tracks to remove
StaleTracks(trks, current_track_ids, timestamp) ==
    {tid \in DOMAIN trks \ current_track_ids :
        timestamp - (IF trks[tid] # <<>> THEN trks[tid][Len(trks[tid])].timestamp ELSE 0)
            > StaleAfter}

TrackerInit ==
    /\ detection_model \in BOOLEAN
    /\ calls = 0
    /\ tracks = <<>>
    /\ player_mapping = <<>>
    /\ mapping_order = <<>>
    /\ last_positions = <<>>
    /\ next_track_id = 1
    /\ clock = 0
    /\ detections = <<>>

\* lines 74-154: track(frame, timestamp)
Track(frame, timestamp) ==
    /\ calls < MaxCalls
    /\ calls' = calls + 1
    /\ clock' = timestamp
    /\ IF ~detection_model
       THEN /\ detections' = <<>>
            /\ UNCHANGED <<tracks, player_mapping, mapping_order, last_positions,
                           next_track_id>>
       ELSE LET st == TrackBoxes([tracks |-> tracks, player_mapping |-> player_mapping,
                                  mapping_order |-> mapping_order,
                                  last_positions |-> last_positions,
                                  next_track_id |-> next_track_id,
                                  current_track_ids |-> {}, detections |-> <<>>],
                                 frame, timestamp)
                stale_tracks == StaleTracks(st.tracks, st.current_track_ids, timestamp)
            IN  /\ tracks' = Del(st.tracks, stale_tracks)
                /\ last_positions' = Del(st.last_positions, stale_tracks)
                /\ player_mapping' = st.player_mapping
                /\ mapping_order' = st.mapping_order
                /\ next_track_id' = st.next_track_id
                /\ detections' = st.detections
    /\ UNCHANGED detection_model
    /\ UNCHANGED exceptTracker

\* lines 277-286: the loop of get_player_stats over player_mapping.items(),
\* every matching live track overwriting what the one before it left
RECURSIVE StatsLoop(_, _, _)
StatsLoop(order, player_number, acc) ==
    IF order = <<>> THEN acc
    ELSE LET track_id == Head(order)
             track == tracks[track_id]
             speeds == SelectSeq([n \in 1..Len(track) |-> track[n].speed],
                                 LAMBDA sp : sp # NoSpeed)
             acc1 == [acc EXCEPT !.total_distance = track[Len(track)].distance_traveled]
             acc2 == IF speeds = <<>> THEN acc1
                     ELSE [acc1 EXCEPT !.max_speed = SeqMax(speeds),
                                       !.speed_sum = SeqSum(speeds),
                                       !.speed_count = Len(speeds)]
         IN  StatsLoop(Tail(order), player_number,
                 IF /\ player_mapping[track_id] = player_number
                    /\ track_id \in DOMAIN tracks
                    /\ track # <<>>
                 THEN acc2 ELSE acc)

\* lines 269-294: get_player_stats(player_number), distances and speeds in
\* pixels as in the detections
GetPlayerStats(player_number) ==
    LET acc == StatsLoop(mapping_order, player_number,
                   [total_distance |-> 0, max_speed |-> 0, speed_sum |-> 0,
                    speed_count |-> 0])
    IN  [total_distance |-> acc.total_distance,
         max_speed |-> acc.max_speed,
         avg_speed |-> IF acc.speed_count > 0 THEN acc.speed_sum \div acc.speed_count
                       ELSE 0]

----------------------------------------------------------------------------
(* HighlightsGenerator.identify_highlights. A shot is the dictionary of    *)
(* the analytics payload; a clip's description is the list of the events   *)
(* joined by " | ", each event its type and its player.                    *)

HighlightKinds ==
    {<<"forehand", "in">>, <<"forehand", "winner">>, <<"serve", "ace">>,
     <<"smash", "in">>, <<"overhead", "winner">>}
\* ticks from one shot to the next, and the time of the first shot
HighlightGaps == {2, 9, 10, 11}
HighlightFirstTimes == {2, 20}

HighlightShotsAfter(list) ==
    {[timestamp |-> t, shot_type |-> k[1], outcome |-> k[2], player_number |-> p] :
        t \in IF list = <<>> THEN HighlightFirstTimes
              ELSE {list[Len(list)].timestamp + g : g \in HighlightGaps},
        k \in HighlightKinds, p \in Players}

\* the shot lists of at most n shots, in time order
RECURSIVE HighlightShotLists(_)
HighlightShotLists(n) ==
    IF n = 0 THEN {<<>>}
    ELSE LET shorter == HighlightShotLists(n - 1)
         IN  shorter \cup
             UNION {{Append(list, shot) : shot \in HighlightShotsAfter(list)} :
                       list \in {l \in shorter : Len(l) = n - 1}}

\* lines 50-56, 64-70, 78-84: HighlightClip(...)
HighlightClip(shot, type, before, after) ==
    LET start == shot.timestamp - before * TicksPerSecond
    IN  [start_time |-> IF start < 0 THEN 0 ELSE start,
         end_time |-> shot.timestamp + after * TicksPerSecond,
         highlight_type |-> type,
         description |-> <<<<type, shot.player_number>>>>,
         player_number |-> shot.player_number]

\* lines 44-84: the clips one shot adds to `highlights`
ClipsOfShot(shot) ==
    (IF shot.outcome = "winner"
     THEN <<HighlightClip(shot, "winner", WinnerBefore, WinnerAfter)>> ELSE <<>>)
    \o (IF shot.shot_type = "serve" /\ shot.outcome = "ace"
        THEN <<HighlightClip(shot, "ace", AceBefore, AceAfter)>> ELSE <<>>)
    \o (IF shot.shot_type \in {"smash", "overhead"}
        THEN <<HighlightClip(shot, "smash", SmashBefore, SmashAfter)>> ELSE <<>>)

\* lines 43-84: the loop over the shots
RECURSIVE Candidates(_)
Candidates(list) ==
    IF list = <<>> THEN <<>>
    ELSE ClipsOfShot(Head(list)) \o Candidates(Tail(list))

\* one step of the stable sort: clip goes behind every clip that does not
\* start later
RECURSIVE InsertByStart(_, _)
InsertByStart(sorted, clip) ==
    IF sorted = <<>> THEN <<clip>>
    ELSE IF Head(sorted).start_time <= clip.start_time
         THEN <<Head(sorted)>> \o InsertByStart(Tail(sorted), clip)
         ELSE <<clip>> \o sorted

\* line 87: highlights.sort(key=lambda x: x.start_time)
RECURSIVE SortByStartTime(_)
SortByStartTime(list) ==
    IF list = <<>> THEN <<>>
    ELSE InsertByStart(SortByStartTime(SubSeq(list, 1, Len(list) - 1)), list[Len(list)])

\* variant of Mergeable: only a clip that overlaps the last one is merged
Mergeable_OverlapOnly(last, clip) ==
    clip.start_time <= last.end_time

\* line 97: the test that merges clip into last
Mergeable(last, clip) ==
    clip.start_time <= last.end_time + MergeGap * TicksPerSecond

\* lines 90-101: the loop that merges
RECURSIVE MergeClips(_, _)
MergeClips(merged, highlights) ==
    IF highlights = <<>> THEN merged
    ELSE LET clip == Head(highlights)
             last == merged[Len(merged)]
         IN  MergeClips(
                 IF merged = <<>> THEN <<clip>>
                 ELSE IF Mergeable(last, clip)
                      THEN [merged EXCEPT ![Len(merged)] =
                               [last EXCEPT
                                   !.end_time = IF last.end_time >= clip.end_time
                                                THEN last.end_time ELSE clip.end_time,
                                   !.description = last.description \o clip.description]]
                      ELSE Append(merged, clip),
                 Tail(highlights))

\* lines 26-29: __init__, before any shot list is given
HighlightsInit ==
    /\ highlight_shots = <<>>
    /\ clips = <<>>
    /\ identified = FALSE

\* lines 31-104: identify_highlights(shots, rallies)
IdentifyHighlights ==
    /\ ~identified
    /\ clips' = MergeClips(<<>>, SortByStartTime(Candidates(highlight_shots)))
    /\ identified' = TRUE
    /\ UNCHANGED highlight_shots
    /\ UNCHANGED exceptHighlights

----------------------------------------------------------------------------
(* EnhancedAnalyticsEngine.identify_rallies. The shots are the Shot        *)
(* objects of enhanced_shot_classifier.py, shot_id counting from 1; the    *)
(* "shots" list of a rally holds shot ids.                                 *)

EnhancedGaps == {1, 5, 6}
EnhancedOutcomes == {"None", "winner", "error"}

NextEnhancedShots ==
    [shot_id : {Len(enh_shots) + 1}, player_number : Players,
     timestamp : IF enh_shots = <<>> THEN FirstTimes
                 ELSE {enh_shots[Len(enh_shots)].timestamp + g : g \in EnhancedGaps},
     outcome : EnhancedOutcomes]

\* current_rally = None
NoEnhRally ==
    [start_time |-> 0, start_shot_id |-> 0, shots |-> <<>>,
     player1_shots |-> 0, player2_shots |-> 0]

\* lines 88-119: _finalize_rally
FinalizeRally(all, rally) ==
    IF rally.shots = <<>> THEN rally
    ELSE LET last_shot == all[rally.shots[Len(rally.shots)]]
         IN  [start_time |-> rally.start_time,
              start_shot_id |-> rally.start_shot_id,
              player1_shots |-> rally.player1_shots,
              player2_shots |-> rally.player2_shots,
              end_time |-> last_shot.timestamp,
              duration |-> last_shot.timestamp - rally.start_time,
              shot_count |-> Len(rally.shots),
              winner_player |->
                  IF rally.player1_shots > rally.player2_shots THEN 1
                  ELSE IF rally.player2_shots > rally.player1_shots THEN 2
                  ELSE 0,
              ended_by |->
                  IF last_shot.outcome = "error" THEN "error"
                  ELSE IF last_shot.outcome = "winner" THEN "winner"
                  ELSE "unknown",
              shot_ids |-> rally.shots]

\* lines 67-73: the rally started after a gap
RallyAfterGap(shot) ==
    [start_time |-> shot.timestamp, start_shot_id |-> shot.shot_id,
     shots |-> <<shot.shot_id>>,
     player1_shots |-> IF shot.player_number = 1 THEN 1 ELSE 0,
     player2_shots |-> IF shot.player_number = 2 THEN 1 ELSE 0]

\* lines 75-79: update shot counts
CountShot(rally, shot) ==
    IF shot.player_number = 1
    THEN [rally EXCEPT !.player1_shots = @ + 1]
    ELSE [rally EXCEPT !.player2_shots = @ + 1]

EnhancedInit ==
    /\ enh_shots = <<>>
    /\ enh_rallies = <<>>
    /\ enh_current_rally = NoEnhRally
    /\ enh_returned = FALSE

\* lines 45-79: one iteration of the loop
EnhancedProcessShot(shot) ==
    /\ ~enh_returned
    /\ Len(enh_shots) < MaxEnhancedShots
    /\ LET all == Append(enh_shots, shot)
           continues ==
               shot.timestamp - all[enh_current_rally.shots[Len(enh_current_rally.shots)]].timestamp
                   < EnhancedRallyGap
       IN  /\ enh_shots' = all
           /\ IF enh_current_rally = NoEnhRally
              THEN /\ enh_current_rally' =
                          CountShot([start_time |-> shot.timestamp,
                                     start_shot_id |-> shot.shot_id,
                                     shots |-> <<shot.shot_id>>,
                                     player1_shots |-> 0, player2_shots |-> 0], shot)
                   /\ UNCHANGED enh_rallies
              ELSE IF continues
                   THEN /\ enh_current_rally' =
                               CountShot([enh_current_rally EXCEPT
                                             !.shots = Append(@, shot.shot_id)], shot)
                        /\ UNCHANGED enh_rallies
                   ELSE /\ enh_rallies' =
                               Append(enh_rallies, FinalizeRally(all, enh_current_rally))
                        /\ enh_current_rally' = CountShot(RallyAfterGap(shot), shot)
    /\ UNCHANGED enh_returned
    /\ UNCHANGED exceptEnhanced

\* lines 39-40 and 81-86: the return, of [] for an empty shot list
EnhancedReturn ==
    /\ ~enh_returned
    /\ enh_rallies' =
           IF enh_shots = <<>> \/ enh_current_rally = NoEnhRally THEN enh_rallies
           ELSE Append(enh_rallies, FinalizeRally(enh_shots, enh_current_rally))
    /\ enh_returned' = TRUE
    /\ UNCHANGED <<enh_shots, enh_current_rally>>
    /\ UNCHANGED exceptEnhanced

----------------------------------------------------------------------------
(* VideoProcessor.process and the /process endpoint. A frame is known by   *)
(* its index in the video and by the person boxes the detector finds in    *)
(* it; an exception is known by its message, a list of strings.            *)

Fps == {25, 50}
MatchIds == {0, 1}

\* a file that does not open has nothing to read; unreadable is the index of
\* the first frame for which cap.read() returns ret False although frames
\* follow it (frame_count when every frame can be read)
Videos ==
    {v \in [opened : BOOLEAN, fps : Fps, frame_count : 0..MaxFrames,
            unreadable : 0..MaxFrames] :
        /\ v.unreadable <= v.frame_count
        /\ ~v.opened => (v.fps = 25 /\ v.frame_count = 0)}

\* what the person detector finds in a frame: nobody, or the person it
\* tracks as id 1 in the left or in the right half
ProcessFrames == {<<>>} \cup {<<[id |-> 1, center |-> c]>> : c \in Centers}

NoClassification == [method |-> "none", from_frames |-> {}, skipped_frames |-> {}]
NoAnalytics ==
    [match_id |-> NoKey, tracked_frames |-> {}, shots |-> NoClassification,
     highlights_video_path |-> "None"]
NoResponse == [status_code |-> 0, detail |-> <<>>]

\* video_processor.py:75   timestamp = frame_number / fps, in milliseconds
Timestamp(number, fps) == (number * 1000) \div fps

\* player_tracker.py:86-95   _assign_player_number
BasicPlayerNumber(center_x) == IF 2 * center_x < ImageWidth THEN 1 ELSE 2

\* player_tracker.py:38-84   PlayerTracker.track; `person` is the box.id the
\* detector gave, which the PlayerDetection does not keep
BasicTrack(boxes, timestamp) ==
    IF ~person_model THEN <<>>
    ELSE [n \in 1..Len(boxes) |->
             [player_id |-> BasicPlayerNumber(boxes[n].center),
              timestamp |-> timestamp, center |-> boxes[n].center,
              person |-> boxes[n].id]]

\* main.py:57-59   process() raised: HTTPException(500, detail=str(e))
Raise(message) ==
    /\ pc' = "raised"
    /\ response' = [status_code |-> 500, detail |-> message]

\* video_processor.py:148-149 and main.py:49-56   process() returned
Return ==
    /\ pc' = "returned"
    /\ response' = [status_code |-> 200, detail |-> <<"Video processed successfully">>]

inputVars == <<video, match_id, stroke_model, person_model>>
trackingVars == <<cap_pos, frame_number, player_calls, ball_calls, frames,
                  frame_timestamps, player_tracks>>
resultVars == <<classification, analytics, highlights_outcome, api_outcome, posts>>

\* __init__ (lines 19-38) and the request of main.py:38
ProcessInit ==
    /\ pc = "open"
    /\ video \in Videos
    /\ match_id \in MatchIds
    /\ stroke_model \in BOOLEAN
    /\ person_model \in BOOLEAN
    /\ cap_pos = 0
    /\ frame_number = 0
    /\ player_calls = <<>>
    /\ ball_calls = <<>>
    /\ frames = <<>>
    /\ frame_timestamps = <<>>
    /\ player_tracks = <<>>
    /\ classification = NoClassification
    /\ analytics = NoAnalytics
    /\ highlights_outcome = [result |-> "none", file_exists |-> FALSE]
    /\ api_outcome = "none"
    /\ posts = <<>>
    /\ failures = {}
    /\ response = NoResponse

\* a VideoProcessor that is constructed and never run
ProcessIdle ==
    /\ ProcessInit
    /\ video = [opened |-> FALSE, fps |-> 25, frame_count |-> 0, unreadable |-> 0]
    /\ match_id = 1
    /\ stroke_model = TRUE
    /\ person_model = TRUE

\* lines 45-50: open the video
OpenVideo ==
    /\ pc = "open"
    /\ IF ~video.opened
       THEN Raise(<<"Could not open video">>)
       ELSE pc' = "calibrate" /\ UNCHANGED response
    /\ UNCHANGED <<inputVars, trackingVars, resultVars, failures>>
    /\ UNCHANGED exceptProcess

\* lines 52-55 and 151-155: step 1, on the frame _read_frame(0) decodes
Calibrate(ok) ==
    /\ pc = "calibrate"
    /\ cap_pos' = IF video.frame_count > 0 THEN 1 ELSE 0
    /\ IF video.frame_count = 0 \/ video.unreadable = 0 \/ ~ok
       THEN /\ failures' = failures \cup {"calibration"}
            /\ Raise(<<"court detector error">>)
       ELSE /\ pc' = "track"
            /\ UNCHANGED <<failures, response>>
    /\ UNCHANGED <<inputVars, frame_number, player_calls, ball_calls, frames,
                   frame_timestamps, player_tracks, resultVars>>
    /\ UNCHANGED exceptProcess

\* lines 71-72: cap.read() returns ret False, at the end of the file or on a
\* frame it cannot decode
ReadFails == cap_pos >= video.frame_count \/ cap_pos = video.unreadable

\* lines 71-73: `if not ret: break`
EndOfVideo ==
    /\ pc = "track"
    /\ ReadFails
    /\ pc' = "classify"
    /\ UNCHANGED <<inputVars, trackingVars, resultVars, failures, response>>
    /\ UNCHANGED exceptProcess

\* lines 71-92: one iteration of the loop of step 2; raises tells which
\* tracker raises on the frame, if any
TrackFrame(boxes, raises) ==
    /\ pc = "track"
    /\ ~ReadFails
    /\ LET timestamp == Timestamp(frame_number, video.fps)
           call == [frame |-> cap_pos, timestamp |-> timestamp]
       IN  /\ cap_pos' = cap_pos + 1
           /\ player_calls' = Append(player_calls, call)
           /\ IF raises = "player"
              THEN /\ failures' = failures \cup {"tracking"}
                   /\ Raise(<<"person detector error">>)
                   /\ UNCHANGED <<player_tracks, ball_calls, frames, frame_timestamps,
                                  frame_number>>
              ELSE /\ player_tracks' = player_tracks \o BasicTrack(boxes, timestamp)
                   /\ ball_calls' = Append(ball_calls, call)
                   /\ IF raises = "ball"
                      THEN /\ failures' = failures \cup {"tracking"}
                           /\ Raise(<<"ball tracker error">>)
                           /\ UNCHANGED <<frames, frame_timestamps, frame_number>>
                      ELSE /\ IF frame_number % FrameSampleRate = 0
                              THEN /\ frames' = Append(frames, cap_pos)
                                   /\ frame_timestamps' = Append(frame_timestamps, timestamp)
                              ELSE UNCHANGED <<frames, frame_timestamps>>
                           /\ frame_number' = frame_number + 1
                           /\ UNCHANGED <<pc, failures, response>>
    /\ UNCHANGED <<inputVars, resultVars>>
    /\ UNCHANGED exceptProcess

\* enhanced_shot_classifier.py:179-181   the batches of self.frames
StoredBatches ==
    IF frames = <<>> THEN {} ELSE 0..((Len(frames) - 1) \div BatchSize)

\* enhanced_shot_classifier.py:148-161   the path classify_shots takes
ClassifierPath ==
    IF ~stroke_model THEN "heuristic"
    ELSE IF frames # <<>> /\ frame_timestamps # <<>>
            /\ Len(frames) = Len(frame_timestamps)
         THEN "stroke_model"
         ELSE "tracks"

\* lines 107-115, enhanced_shot_classifier.py:124-252: step 3; failed holds
\* the batches on which the stroke model raises
ClassifyShots(failed) ==
    /\ pc = "classify"
    /\ failed \subseteq (IF ClassifierPath = "stroke_model" THEN StoredBatches ELSE {})
    /\ classification' =
           [method |-> ClassifierPath,
            from_frames |->
                IF ClassifierPath # "stroke_model" THEN {}
                ELSE {frames[n] : n \in {m \in 1..Len(frames) :
                                            ((m - 1) \div BatchSize) \notin failed}},
            skipped_frames |->
                {frames[n] : n \in {m \in 1..Len(frames) :
                                       ((m - 1) \div BatchSize) \in failed}}]
    /\ failures' = IF failed # {} THEN failures \cup {"classification"} ELSE failures
    /\ pc' = "rallies"
    /\ UNCHANGED <<inputVars, trackingVars, analytics, highlights_outcome, api_outcome,
                   posts, response>>
    /\ UNCHANGED exceptProcess

\* lines 119-124: step 4
IdentifyRallies(ok) ==
    /\ pc = "rallies"
    /\ IF ok
       THEN pc' = "analytics" /\ UNCHANGED <<failures, response>>
       ELSE /\ failures' = failures \cup {"rallies"}
            /\ Raise(<<"identify_rallies error">>)
    /\ UNCHANGED <<inputVars, trackingVars, resultVars>>
    /\ UNCHANGED exceptProcess

\* lines 126-135: step 5
GenerateAnalytics(ok) ==
    /\ pc = "analytics"
    /\ IF ok
       THEN /\ analytics' =
                   [match_id |-> match_id,
                    tracked_frames |-> {player_calls[n].frame : n \in 1..Len(player_calls)},
                    shots |-> classification,
                    highlights_video_path |-> "None"]
            /\ pc' = "highlights"
            /\ UNCHANGED <<failures, response>>
       ELSE /\ failures' = failures \cup {"analytics"}
            /\ Raise(<<"generate_analytics error">>)
            /\ UNCHANGED analytics
    /\ UNCHANGED <<inputVars, trackingVars, classification, highlights_outcome,
                   api_outcome, posts>>
    /\ UNCHANGED exceptProcess

\* variant of HighlightsPath: the file alone decides
HighlightsPath_FileAlone(result, file_exists) ==
    IF file_exists THEN "highlights.mp4" ELSE "None"

\* lines 157-178: what _generate_highlights returns
HighlightsPath(result, file_exists) ==
    IF result = "True" /\ file_exists THEN "highlights.mp4" ELSE "None"

\* lines 137-142: step 6; result is how generate_from_analytics ended
\* ("raises", "no clips", "False" or "True")
GenerateHighlights(result, file_exists) ==
    /\ pc = "highlights"
    /\ highlights_outcome' = [result |-> result, file_exists |-> file_exists]
    /\ LET highlights_path == HighlightsPath(result, file_exists)
       IN  analytics' = IF highlights_path # "None"
                        THEN [analytics EXCEPT !.highlights_video_path = highlights_path]
                        ELSE analytics
    /\ pc' = "save"
    /\ UNCHANGED <<inputVars, trackingVars, classification, api_outcome, posts,
                   failures, response>>
    /\ UNCHANGED exceptProcess

\* variant of SaveFails: only an exception of the request fails the save
SaveFails_OnlyWhenRequestRaises(result) == result = "raises"

\* lines 200-208: the POST raised, or answered with a status other than 200
SaveFails(result) == result # "200"

\* lines 144-149 and 180-208: step 7 and the return; result is how the POST
\* ended ("raises", 200 or 500)
SaveResults(result) ==
    /\ pc = "save"
    /\ IF analytics.match_id = 0
       THEN /\ Return
            /\ UNCHANGED <<posts, api_outcome, failures>>
       ELSE /\ posts' = Append(posts, analytics)
            /\ api_outcome' = result
            /\ IF ~SaveFails(result)
               THEN Return /\ UNCHANGED failures
               ELSE /\ failures' = failures \cup {"persistence"}
                    /\ Raise(<<"Failed to save analytics",
                               IF result = "raises" THEN "request error"
                               ELSE "API returned status 500">>)
    /\ UNCHANGED <<inputVars, trackingVars, classification, analytics, highlights_outcome>>
    /\ UNCHANGED exceptProcess

----------------------------------------------------------------------------
(* EnhancedShotClassifier.classify_shots, one action for the choice of the *)
(* path and one per batch of _classify_with_stroke_model. A shot is known  *)
(* by its shot_id, the index of the stored frame it was found in (NoKey    *)
(* for a shot found from the tracks) and the method that made it.          *)

\* what the stroke model answers for a batch: it raises, it finds no stroke,
\* or it finds a stroke in the first frame or in every frame of the batch
BatchOutcomes == {"raises", "no stroke", "first frame", "every frame"}

\* lines 179-180: batch_frames = frames[i:i+batch_size], by index
BatchFrames(i) ==
    {k \in 0..(cls_frames - 1) : i <= k /\ k < i + BatchSize}

\* lines 187-247: the shots the results of a batch append, in frame order
RECURSIVE BatchShots(_, _, _)
BatchShots(acc, k, last) ==
    IF k > last THEN acc
    ELSE BatchShots(Append(acc, [shot_id |-> Len(acc) + 1, frame |-> k,
                                 by |-> "stroke_model"]),
                    k + 1, last)

\* lines 254-303: _classify_from_tracks, by the number of ball contacts
RECURSIVE ContactShots(_, _, _)
ContactShots(acc, contacts, by) ==
    IF contacts = 0 THEN acc
    ELSE ContactShots(Append(acc, [shot_id |-> Len(acc) + 1, frame |-> NoKey, by |-> by]),
                      contacts - 1, by)

\* __init__ (lines 88-122) and the arguments of classify_shots
ClassifierInit ==
    /\ cls_pc = "idle"
    /\ cls_model \in BOOLEAN
    /\ cls_frames \in 0..MaxStoredFrames
    /\ cls_i = 0
    /\ cls_sent = <<>>
    /\ cls_raised = {}
    /\ cls_shots = <<>>

\* a classifier that is constructed and never called
ClassifierIdle ==
    /\ ClassifierInit
    /\ cls_model = TRUE
    /\ cls_frames = 0

\* lines 145-163: classify_shots chooses the path; the heuristic path and the
\* path from the tracks return at once
ChoosePath(contacts) ==
    /\ cls_pc = "idle"
    /\ IF ~cls_model
       THEN /\ cls_shots' = ContactShots(<<>>, contacts, "heuristic")
            /\ cls_pc' = "returned"
       ELSE IF cls_frames > 0
       THEN /\ contacts = 0
            /\ cls_pc' = "batches"
            /\ UNCHANGED cls_shots
       ELSE /\ cls_shots' = ContactShots(<<>>, contacts, "tracks")
            /\ cls_pc' = "returned"
    /\ UNCHANGED <<cls_model, cls_frames, cls_i, cls_sent, cls_raised>>
    /\ UNCHANGED exceptClassifier

\* lines 178-250: one iteration of the loop over the batches
ClassifyBatch(outcome) ==
    /\ cls_pc = "batches"
    /\ cls_i < cls_frames
    /\ cls_sent' = Append(cls_sent, cls_i)
    /\ cls_raised' = IF outcome = "raises" THEN cls_raised \cup {cls_i} ELSE cls_raised
    /\ cls_shots' =
           IF outcome = "first frame" THEN BatchShots(cls_shots, cls_i, cls_i)
           ELSE IF outcome = "every frame"
           THEN BatchShots(cls_shots, cls_i,
                           CHOOSE k \in BatchFrames(cls_i) :
                               \A m \in BatchFrames(cls_i) : m <= k)
           ELSE cls_shots
    /\ cls_i' = cls_i + BatchSize
    /\ UNCHANGED <<cls_pc, cls_model, cls_frames>>
    /\ UNCHANGED exceptClassifier

\* line 252: the loop is over, return shots
ReturnShots ==
    /\ cls_pc = "batches"
    /\ cls_i >= cls_frames
    /\ cls_pc' = "returned"
    /\ UNCHANGED <<cls_model, cls_frames, cls_i, cls_sent, cls_raised, cls_shots>>
    /\ UNCHANGED exceptClassifier

----------------------------------------------------------------------------
(* EnhancedBallTracker, one action per track() call. Of the Kalman filter  *)
(* the model keeps the vertical velocity: predict() leaves it as it is     *)
(* (the transition matrix F copies vx and vy), update() moves it to a      *)
(* value that depends on the measurement, here any value of                *)
(* FilteredVelocities. Positions, vx, confidence and speed_mps are left    *)
(* out; they do not enter the bounce flag, the counters or the history.    *)

\* vertical velocities update() may leave in the filter, in pixels per frame
FilteredVelocities == {-20, 10, 40}

\* return value None of a tracker that was never called
NoBall == [timestamp |-> 0, vy |-> 0, is_bounce |-> FALSE, is_detected |-> FALSE]

\* lines 341-358: _detect_bounce(velocity), called before the detection of
\* this frame is appended to the history
DetectBounce(history, current_vy) ==
    IF Len(history) < 2 THEN FALSE
    ELSE LET prev_vy == history[Len(history) - 1].vy
             vy_change == Abs(current_vy - prev_vy)
             vy_reversal == (prev_vy > 0 /\ current_vy < 0) \/ (prev_vy < 0 /\ current_vy > 0)
         IN  vy_reversal /\ vy_change > BounceThreshold

\* variant of TrimHistory: the oldest detection leaves when the limit is reached
TrimHistory_AtLimit(history) ==
    IF Len(history) >= HistoryLimit THEN Tail(history) ELSE history

\* lines 219-220: pop(0) when the history is longer than the limit
TrimHistory(history) ==
    IF Len(history) > HistoryLimit THEN Tail(history) ELSE history

\* lines 360-364: get_detection_rate(), in thousandths
GetDetectionRate ==
    IF total_frames = 0 THEN 0 ELSE (detection_count * 1000) \div total_frames

\* __init__ (lines 98-153)
BallInit ==
    /\ ball_model \in BOOLEAN
    /\ ball_n = 0
    /\ total_frames = 0
    /\ detection_count = 0
    /\ trajectory_history = <<>>
    /\ kalman_vy = 0
    /\ ball_detection = NoBall

\* a tracker that is constructed and never called
BallIdle ==
    /\ BallInit
    /\ ball_model = TRUE

\* lines 157-224: track(frame, timestamp); yolo_finds and color_finds tell
\* what each detection method would find in the frame, vy the vertical
\* velocity update() leaves in the filter for the measured position
TrackBall(yolo_finds, color_finds, vy) ==
    /\ ball_n < MaxBallCalls
    /\ ball_n >= VariedCalls => (~yolo_finds /\ ~color_finds)
    /\ LET timestamp == ball_n + 1
           \* lines 174-178
           by_yolo == ball_model /\ yolo_finds
           \* lines 181-185
           by_color == ~by_yolo /\ color_finds
           is_detected == by_yolo \/ by_color
           \* lines 188-199
           velocity == IF is_detected THEN vy ELSE kalman_vy
           detection == [timestamp |-> timestamp, vy |-> velocity,
                         is_bounce |-> DetectBounce(trajectory_history, velocity),
                         is_detected |-> is_detected]
       IN  /\ ball_n' = timestamp
           /\ total_frames' = total_frames + 1
           /\ detection_count' = detection_count + (IF by_yolo THEN 1 ELSE 0)
                                                 + (IF by_color THEN 1 ELSE 0)
           /\ kalman_vy' = velocity
           /\ trajectory_history' = TrimHistory(Append(trajectory_history, detection))
           /\ ball_detection' = detection
    /\ UNCHANGED ball_model
    /\ UNCHANGED exceptBall

----------------------------------------------------------------------------
(* The API side of one match: upload_video, which dispatches the           *)
(* processing task; _process_match_video_impl; the reads get_match and     *)
(* list_matches; and save_ml_pipeline_results, which the ML service calls  *)
(* through save-from-ml before it answers the task. Each of them works in  *)
(* a database session of its own: what it has not committed is seen by     *)
(* nobody else. One ML run is in progress at a time. A row of rallies or   *)
(* shots is known by the payload it came from and its index in it.         *)

Payloads == [id : 1..MaxRuns, rallies : 0..MaxRows, shots : 0..MaxRows]
NoPayload == [id |-> 0, rallies |-> 0, shots |-> 0]

RowsOf(id, n) == {<<id, k>> : k \in 1..n}

\* what a session that has changed nothing sees
Committed == [stats |-> stats_row, rallies |-> rally_rows, shots |-> shot_rows]

\* match_service.py:16-34   compute_match_status
ComputeMatchStatus ==
    IF stats_row # 0 THEN "completed"
    ELSE IF m_videos > 0 THEN "analyzing"
    ELSE "uploading"

\* match_service.py:36-54   create_match
BackendInit ==
    /\ m_status = "uploading"
    /\ m_error = "None"
    /\ m_videos = 0
    /\ stats_row = 0
    /\ rally_rows = {}
    /\ shot_rows = {}
    /\ staged = Committed
    /\ uploads = 0
    /\ task_pc = "none"
    /\ task_failed = FALSE
    /\ ml_pc = "idle"
    /\ save_pc = "idle"
    /\ save_payload = NoPayload
    /\ save_result = "none"
    /\ save_raised_in = "none"

dataVars == <<stats_row, rally_rows, shot_rows>>
saveVars == <<staged, save_pc, save_payload, save_result, save_raised_in>>

\* match_service.py:134-180   upload_video: the video row, status ANALYZING,
\* and the task is queued
UploadVideo ==
    /\ uploads < MaxRuns
    /\ task_pc \in {"none", "done"} /\ ml_pc = "idle"
    /\ uploads' = uploads + 1
    /\ m_videos' = m_videos + 1
    /\ m_status' = "analyzing"
    /\ task_pc' = "queued"
    /\ task_failed' = FALSE
    /\ UNCHANGED <<m_error, dataVars, saveVars, ml_pc>>
    /\ UNCHANGED exceptBackend

\* video_processing.py:28-51   the task sets ANALYZING and posts to the ML
\* service; a post that cannot be sent raises (lines 65-72)
StartTask(sent) ==
    /\ task_pc = "queued"
    /\ IF sent
       THEN /\ m_status' = "analyzing"
            /\ task_pc' = "waiting"
            /\ ml_pc' = "processing"
            /\ UNCHANGED <<m_error, task_failed>>
       ELSE /\ m_status' = "failed"
            /\ m_error' = "exception"
            /\ task_pc' = "done"
            /\ task_failed' = TRUE
            /\ UNCHANGED ml_pc
    /\ UNCHANGED <<m_videos, uploads, dataVars, saveVars>>
    /\ UNCHANGED exceptBackend

\* video_processing.py:50, 65-72   the post times out; the ML service goes on
TaskTimesOut ==
    /\ task_pc = "waiting"
    /\ m_status' = "failed"
    /\ m_error' = "exception"
    /\ task_pc' = "done"
    /\ task_failed' = TRUE
    /\ UNCHANGED <<m_videos, uploads, ml_pc, dataVars, saveVars>>
    /\ UNCHANGED exceptBackend

\* video_processing.py:53-63   what the task does with the answer, if it
\* still waits for it
TaskTakesAnswer(status_code) ==
    IF task_pc = "waiting"
    THEN /\ task_pc' = "done"
         /\ IF status_code = 200
            THEN /\ m_status' = "completed"
                 /\ UNCHANGED <<m_error, task_failed>>
            ELSE /\ m_status' = "failed"
                 /\ m_error' = "ML service error"
                 /\ task_failed' = TRUE
    ELSE UNCHANGED <<task_pc, m_status, m_error, task_failed>>

\* main.py:57-59   process() raises before the hand-off: the service answers 500
ProcessingFails ==
    /\ ml_pc = "processing"
    /\ ml_pc' = "idle"
    /\ TaskTakesAnswer(500)
    /\ UNCHANGED <<m_videos, uploads, dataVars, saveVars>>
    /\ UNCHANGED exceptBackend

\* main.py:49-59   the service answers after the hand-off
ServiceAnswers ==
    /\ ml_pc \in {"answer 200", "answer 500"}
    /\ ml_pc' = "idle"
    /\ TaskTakesAnswer(IF ml_pc = "answer 200" THEN 200 ELSE 500)
    /\ UNCHANGED <<m_videos, uploads, dataVars, saveVars>>
    /\ UNCHANGED exceptBackend

\* match_service.py:56-70 and 95-100   get_match, list_matches: the stored
\* status is replaced by the computed one
GetMatch ==
    /\ m_status' = ComputeMatchStatus
    /\ UNCHANGED <<m_error, m_videos, uploads, task_pc, task_failed, ml_pc, dataVars,
                   saveVars>>
    /\ UNCHANGED exceptBackend

\* analytics_service.py:247-251   the ML service calls save-from-ml
SaveStart(payload) ==
    /\ ml_pc = "processing"
    /\ payload.id = uploads
    /\ ml_pc' = "saving"
    /\ save_pc' = "stats"
    /\ save_payload' = payload
    /\ save_result' = "none"
    /\ save_raised_in' = "none"
    /\ staged' = Committed
    /\ UNCHANGED <<m_status, m_error, m_videos, uploads, task_pc, task_failed, dataVars>>
    /\ UNCHANGED exceptBackend

\* the step that follows the inserts made so far
StepAfter(st) ==
    IF Cardinality(st.rallies) < save_payload.rallies THEN "rallies"
    ELSE IF Cardinality(st.shots) < save_payload.shots THEN "shots"
    ELSE "commit"

\* analytics_service.py:260-388   one step of the try block, in the session
Stage(st) ==
    IF save_pc = "stats" THEN [st EXCEPT !.stats = save_payload.id]
    ELSE IF save_pc = "delete" THEN [st EXCEPT !.rallies = {}, !.shots = {}]
    ELSE IF save_pc = "rallies"
    THEN [st EXCEPT !.rallies = @ \cup {<<save_payload.id, Cardinality(@) + 1>>}]
    ELSE [st EXCEPT !.shots = @ \cup {<<save_payload.id, Cardinality(@) + 1>>}]

\* lines 260-388: a step that does not raise
SaveStep ==
    /\ save_pc \in {"stats", "delete", "rallies", "shots"}
    /\ staged' = Stage(staged)
    /\ save_pc' = IF save_pc = "stats" THEN "delete" ELSE StepAfter(Stage(staged))
    /\ UNCHANGED <<m_status, m_error, m_videos, uploads, task_pc, task_failed, ml_pc,
                   dataVars, save_payload, save_result, save_raised_in>>
    /\ UNCHANGED exceptBackend

\* lines 390-397: status COMPLETED and the commit
SaveCommit ==
    /\ save_pc = "commit"
    /\ stats_row' = staged.stats
    /\ rally_rows' = staged.rallies
    /\ shot_rows' = staged.shots
    /\ m_status' = "completed"
    /\ save_result' = "True"
    /\ save_pc' = "idle"
    /\ ml_pc' = "answer 200"
    /\ UNCHANGED <<m_error, m_videos, uploads, task_pc, task_failed, staged, save_payload,
                   save_raised_in>>
    /\ UNCHANGED exceptBackend

\* variant of Rollback: the session keeps what it has staged
Rollback_KeepsStaged(st) == st

\* line 400: self.db.rollback(), the session sees the committed rows again
Rollback(st) == Committed

\* lines 399-405: a step of the try block, or the commit, raises
SaveRaises ==
    /\ save_pc \in {"stats", "delete", "rallies", "shots", "commit"}
    /\ LET st == Rollback(staged)
       IN  /\ staged' = st
           /\ stats_row' = st.stats
           /\ rally_rows' = st.rallies
           /\ shot_rows' = st.shots
    /\ m_status' = "failed"
    /\ m_error' = "Failed to save analytics"
    /\ save_result' = "False"
    /\ save_raised_in' = save_pc
    /\ save_pc' = "idle"
    /\ ml_pc' = "answer 500"
    /\ UNCHANGED <<m_videos, uploads, task_pc, task_failed, save_payload>>
    /\ UNCHANGED exceptBackend

----------------------------------------------------------------------------
(* Specifications *)

RallyNext == (\E shot \in NextShots : ProcessShot(shot)) \/ ReturnRallies

\* identify_rallies on its own: the tracker stays as constructed
InitRallySpec ==
    /\ RallyInit
    /\ TrackerInit /\ detection_model = TRUE
    /\ HighlightsInit
    /\ EnhancedInit
    /\ ProcessIdle
    /\ ClassifierIdle
    /\ BallIdle
    /\ BackendInit

SpecRally == InitRallySpec /\ [][RallyNext]_vars

TwiceNext ==
    \/ run = 1 /\ RallyNext
    \/ CallAgain
    \/ ProcessListedShot
    \/ ReturnListedRallies

InitTwiceSpec ==
    /\ RallyInit
    /\ TrackerInit /\ detection_model = TRUE
    /\ HighlightsInit
    /\ EnhancedInit
    /\ ProcessIdle
    /\ ClassifierIdle
    /\ BallIdle
    /\ BackendInit

\* identify_rallies called twice on the same shot list
SpecTwice == InitTwiceSpec /\ [][TwiceNext]_vars

TrackerNext == \E frame \in RealFrames, dt \in TimeSteps : Track(frame, clock + dt)

\* the tracker on its own, with or without a loaded detector
InitTrackerSpec ==
    /\ TrackerInit
    /\ RallyInit
    /\ HighlightsInit
    /\ EnhancedInit
    /\ ProcessIdle
    /\ ClassifierIdle
    /\ BallIdle
    /\ BackendInit

SpecTracker == InitTrackerSpec /\ [][TrackerNext]_vars

HighlightsNext == IdentifyHighlights

\* identify_highlights on every shot list of at most MaxHighlightShots shots
InitHighlightsSpec ==
    /\ highlight_shots \in HighlightShotLists(MaxHighlightShots)
    /\ clips = <<>>
    /\ identified = FALSE
    /\ RallyInit
    /\ TrackerInit /\ detection_model = TRUE
    /\ EnhancedInit
    /\ ProcessIdle
    /\ ClassifierIdle
    /\ BallIdle
    /\ BackendInit

SpecHighlights == InitHighlightsSpec /\ [][HighlightsNext]_vars

EnhancedNext ==
    (\E shot \in NextEnhancedShots : EnhancedProcessShot(shot)) \/ EnhancedReturn

\* EnhancedAnalyticsEngine.identify_rallies on its own
InitEnhancedSpec ==
    /\ EnhancedInit
    /\ RallyInit
    /\ TrackerInit /\ detection_model = TRUE
    /\ HighlightsInit
    /\ ProcessIdle
    /\ ClassifierIdle
    /\ BallIdle
    /\ BackendInit

SpecEnhanced == InitEnhancedSpec /\ [][EnhancedNext]_vars

ProcessNext ==
    \/ OpenVideo
    \/ \E ok \in BOOLEAN : Calibrate(ok)
    \/ \E boxes \in ProcessFrames, raises \in {"none", "player", "ball"} :
           TrackFrame(boxes, raises)
    \/ EndOfVideo
    \/ \E failed \in SUBSET StoredBatches : ClassifyShots(failed)
    \/ \E ok \in BOOLEAN : IdentifyRallies(ok)
    \/ \E ok \in BOOLEAN : GenerateAnalytics(ok)
    \/ \E result \in {"raises", "no clips", "False", "True"}, file_exists \in BOOLEAN :
           GenerateHighlights(result, file_exists)
    \/ \E result \in {"raises", "200", "500"} : SaveResults(result)

\* one request to /process, for every video of at most MaxFrames frames
InitProcessSpec ==
    /\ ProcessInit
    /\ RallyInit
    /\ TrackerInit /\ detection_model = TRUE
    /\ HighlightsInit
    /\ EnhancedInit
    /\ ClassifierIdle
    /\ BallIdle
    /\ BackendInit

SpecProcess == InitProcessSpec /\ [][ProcessNext]_vars

ClassifierNext ==
    \/ \E contacts \in 0..1 : ChoosePath(contacts)
    \/ \E outcome \in BatchOutcomes : ClassifyBatch(outcome)
    \/ ReturnShots

\* one call of classify_shots, for every number of stored frames
InitClassifierSpec ==
    /\ ClassifierInit
    /\ RallyInit
    /\ TrackerInit /\ detection_model = TRUE
    /\ HighlightsInit
    /\ EnhancedInit
    /\ ProcessIdle
    /\ BallIdle
    /\ BackendInit

SpecClassifier == InitClassifierSpec /\ [][ClassifierNext]_vars

BallNext ==
    \E yolo_finds \in BOOLEAN, color_finds \in BOOLEAN, vy \in FilteredVelocities :
        TrackBall(yolo_finds, color_finds, vy)

\* the ball tracker on its own, with or without a loaded detector
InitBallSpec ==
    /\ BallInit
    /\ RallyInit
    /\ TrackerInit /\ detection_model = TRUE
    /\ HighlightsInit
    /\ EnhancedInit
    /\ ProcessIdle
    /\ ClassifierIdle
    /\ BackendInit

SpecBall == InitBallSpec /\ [][BallNext]_vars

BackendNext ==
    \/ UploadVideo
    \/ \E sent \in BOOLEAN : StartTask(sent)
    \/ TaskTimesOut
    \/ ProcessingFails
    \/ ServiceAnswers
    \/ GetMatch
    \/ \E payload \in Payloads : SaveStart(payload)
    \/ SaveStep
    \/ SaveCommit
    \/ SaveRaises

\* one match from its creation on
InitBackendSpec ==
    /\ BackendInit
    /\ RallyInit
    /\ TrackerInit /\ detection_model = TRUE
    /\ HighlightsInit
    /\ EnhancedInit
    /\ ProcessIdle
    /\ ClassifierIdle
    /\ BallIdle

SpecBackend == InitBackendSpec /\ [][BackendNext]_vars

----------------------------------------------------------------------------
(* Vocabulary of the claims about identify_rallies *)

Range(seq) == {seq[n] : n \in 1..Len(seq)}

\* the shot is flagged as the start of a point
Flagged(shot) == HasServeAttrs(shot) /\ shot.is_point_start

\* the shot lists of all rallies, closed or open
Groups == Range(rally_shots) \cup {current_rally.shots}

SameRally(a, b) == \E g \in Groups : a \in Range(g) /\ b \in Range(g)

FirstOfRally(k) == \E g \in Groups : g # <<>> /\ g[1] = k

HasTerminalShot(g) == \E n \in Range(g) : shots[n].outcome \in {"out", "net", "winner", "ace"}

RECURSIVE SumShotCount(_)
SumShotCount(rs) ==
    IF rs = <<>> THEN 0 ELSE Head(rs).shot_count + SumShotCount(Tail(rs))

----------------------------------------------------------------------------
(* Claims *)

\* C1: when identify_rallies returns, the shot_count values of the returned
\* rallies sum to len(shots), every shot is in the list of exactly one returned
\* rally, and an empty shot list gives an empty rally list.
C1_EveryShotInOneRally ==
    returned =>
        /\ SumShotCount(rallies) = Len(shots)
        /\ Len(rally_shots) = Len(rallies)
        /\ \A j \in 1..Len(rallies) : rallies[j].shot_count = Len(rally_shots[j])
        /\ \A k \in 1..Len(shots) :
               Cardinality({j \in 1..Len(rally_shots) : k \in Range(rally_shots[j])}) = 1
        /\ (shots = <<>> => rallies = <<>>)

\* C1 witness: a returned result for two shots split over two rallies
C1_Witness ==
    returned /\ Len(shots) >= 2 /\ Len(rallies) >= 2

\* C2: a shot with a terminal outcome is the last of its rally: the shot after
\* it, whatever its gap and type, is the first shot of a new rally.
C2_TerminalShotClosesRally ==
    \A k \in 1..Len(shots) :
        (shots[k].outcome \in {"out", "net", "winner", "ace"} /\ k < Len(shots))
            => (FirstOfRally(k + 1) /\ ~SameRally(k, k + 1))

\* C3: a returned rally that holds a winner or ace shot has winner_player equal
\* to the shooting player and ended_by "winner"; one that holds an out or net
\* shot has winner_player equal to the opposing player and ended_by "error".
C3_TerminalOutcomeDecidesWinner ==
    returned =>
        \A j \in 1..Len(rallies) : \A k \in Range(rally_shots[j]) :
            /\ shots[k].outcome \in {"winner", "ace"} =>
                   /\ rallies[j].winner_player = shots[k].player_number
                   /\ rallies[j].ended_by = "winner"
            /\ shots[k].outcome \in {"out", "net"} =>
                   /\ rallies[j].winner_player = 3 - shots[k].player_number
                   /\ rallies[j].ended_by = "error"

\* C4: a serve not flagged is_point_start that immediately follows a serve by
\* the same player from the same serve_side is in the same rally as that
\* serve, whatever the gap and whether or not the first serve was flagged.
C4_SecondServeSameRally ==
    \A k \in 2..Len(shots) :
        ( /\ shots[k].shot_type = "serve" /\ ~Flagged(shots[k])
          /\ shots[k - 1].shot_type = "serve"
          /\ shots[k - 1].player_number = shots[k].player_number
          /\ HasServeAttrs(shots[k]) /\ shots[k].serve_side \in {"deuce", "ad"}
          /\ shots[k - 1].serve_side = shots[k].serve_side )
            => SameRally(k - 1, k)

\* C5: every shot flagged is_point_start, and every serve whose (player_number,
\* serve_side) differs from that of the most recent earlier serve, is the first
\* shot of a new rally, and the rally open before it does not contain it.
C5_NewPointOpensRally ==
    \A k \in 1..Len(shots) :
        ( \/ Flagged(shots[k])
          \/ /\ shots[k].shot_type = "serve"
             /\ \E m \in 1..(k - 1) :
                    /\ shots[m].shot_type = "serve"
                    /\ \A n \in (m + 1)..(k - 1) : shots[n].shot_type # "serve"
                    /\ <<shots[m].player_number, shots[m].serve_side>>
                           # <<shots[k].player_number, shots[k].serve_side>> )
            => (FirstOfRally(k) /\ (k > 1 => ~SameRally(k - 1, k)))

C7_ShotCountIsSumOfPlayers ==
    \A j \in 1..Len(rallies) :
        rallies[j].shot_count = rallies[j].player1_shots + rallies[j].player2_shots

\* C7 witness: a returned rally of two shots, one by each player
C7_Witness ==
    /\ returned
    /\ \E j \in 1..Len(rallies) :
           /\ rallies[j].shot_count = 2
           /\ rallies[j].player1_shots = 1 /\ rallies[j].player2_shots = 1

C9_FinalRallyMatchEnd ==
    (returned /\ shots # <<>>
        /\ shots[Len(shots)].outcome \notin {"out", "net", "winner", "ace"})
        => (rallies # <<>> /\ rallies[Len(rallies)].ended_by = "match_end")

\* C10: a track_id that has a player_number keeps it: track() never changes an
\* entry of player_mapping, and every PlayerDetection it returns carries the
\* number its track_id had before the call (or is given in it).
C10_PlayerNumberStable ==
    [][ /\ \A t \in DOMAIN player_mapping :
               /\ t \in DOMAIN player_mapping'
               /\ player_mapping'[t] = player_mapping[t]
               /\ \A n \in 1..Len(detections') :
                      detections'[n].track_id = t
                          => detections'[n].player_id = player_mapping[t]
        /\ \A n \in 1..Len(detections') :
               /\ detections'[n].track_id \in DOMAIN player_mapping'
               /\ detections'[n].player_id = player_mapping'[detections'[n].track_id]
      ]_vars

\* C10 witness: track 1, the only track ever seen, was given number 1, was
\* evicted as stale, and is reported again, from the right half of the frame,
\* still as player 1
C10_Witness ==
    /\ calls = 3
    /\ DOMAIN player_mapping = {1}
    /\ Len(detections) = 1
    /\ detections[1].track_id = 1 /\ detections[1].player_id = 1
    /\ 2 * detections[1].center >= ImageWidth
    /\ Len(tracks[1]) = 1

\* C11: after any sequence of track() calls no two distinct track_ids are
\* mapped to the same player_number: a new track whose frame half is already
\* claimed by another track receives the other number.
C11_DistinctTracksDistinctNumbers ==
    \A t1 \in DOMAIN player_mapping : \A t2 \in DOMAIN player_mapping :
        t1 # t2 => player_mapping[t1] # player_mapping[t2]

\* C12: when track() evicts a track as stale, what the track accumulated stays
\* in get_player_stats of its player: the total distance returned afterwards
\* is at least the track's distance_traveled, and the maximum speed returned
\* is at least each of the track's speed samples.
C12_EvictedStatsKept ==
    [][ \A t \in DOMAIN tracks \ DOMAIN tracks' :
            tracks[t] # <<>> =>
                LET p == player_mapping[t]
                    after == GetPlayerStats(p)'
                IN  /\ after.total_distance >= tracks[t][Len(tracks[t])].distance_traveled
                    /\ \A n \in 1..Len(tracks[t]) :
                           tracks[t][n].speed # NoSpeed
                               => after.max_speed >= tracks[t][n].speed
      ]_vars

----------------------------------------------------------------------------
(* Vocabulary of the claims about identify_highlights *)

\* the candidate windows in start-time order
SortedCandidates == SortByStartTime(Candidates(highlight_shots))

\* the running end: the latest end among the first n candidates
RECURSIVE RunningEnd(_)
RunningEnd(n) ==
    IF n = 1 THEN SortedCandidates[1].end_time
    ELSE LET e == RunningEnd(n - 1)
         IN  IF SortedCandidates[n].end_time > e THEN SortedCandidates[n].end_time ELSE e

\* the candidates that, by the 1-second rule, are not merged into what
\* precedes them
ClipStarts ==
    {n \in 1..Len(SortedCandidates) :
        n = 1 \/ SortedCandidates[n].start_time - RunningEnd(n - 1)
                     >= MergeGap * TicksPerSecond}

\* C13: the candidate following another in start-time order is merged into
\* the running clip exactly when it overlaps it or starts less than 1 second
\* after its running end; a candidate 1 second or more after it starts a clip
\* of its own; and every returned clip spans the union of its windows.
C13_MergeBelowOneSecond ==
    identified =>
        /\ Len(clips) = Cardinality(ClipStarts)
        /\ \A n \in ClipStarts :
               \E j \in 1..Len(clips) :
                   /\ clips[j].start_time = SortedCandidates[n].start_time
                   /\ LET members == {m \in n..Len(SortedCandidates) :
                                         \A k \in (n + 1)..m : k \notin ClipStarts}
                      IN  \A m \in members :
                              /\ clips[j].end_time >= SortedCandidates[m].end_time
                              /\ \E k \in members :
                                     clips[j].end_time = SortedCandidates[k].end_time

\* C18: every rally of EnhancedAnalyticsEngine.identify_rallies has
\* shot_count = player1_shots + player2_shots, the rallies opened after a gap
\* of 5 seconds or more included (every player_number is 1 or 2).
C18_EnhancedShotCountIsSum ==
    \A j \in 1..Len(enh_rallies) :
        enh_rallies[j].shot_count
            = enh_rallies[j].player1_shots + enh_rallies[j].player2_shots

----------------------------------------------------------------------------
(* Claims about VideoProcessor.process *)

\* C14: once a step of process() has failed hard (a collaborator raised in
\* calibration, tracking, classification, rally segmentation, aggregation or
\* persistence), the run has failed: process() has raised, the endpoint
\* answers 500 with the message, and no payload made while part of the
\* input was skipped has been handed to the persistence API.
C14_HardFailureFailsRun ==
    failures # {} =>
        /\ pc = "raised"
        /\ response.status_code = 500 /\ response.detail # <<>>
        /\ \A n \in 1..Len(posts) : posts[n].shots.skipped_frames = {}

C16_HighlightFailureNeverFailsRun ==
    highlights_outcome.result # "none" =>
        /\ \/ pc \in {"save", "returned"}
           \/ pc = "raised" /\ api_outcome \in {"raises", "500"}
        /\ (pc = "returned" /\ match_id # 0) => Len(posts) = 1
        /\ \A payload \in {analytics} \cup {posts[n] : n \in 1..Len(posts)} :
               payload.highlights_video_path # "None" =>
                   (highlights_outcome.result = "True" /\ highlights_outcome.file_exists)

\* C16 witness: generate_from_analytics raised while a file of an earlier run
\* exists; the run saved a payload without highlights_video_path and returned
C16_Witness ==
    /\ highlights_outcome = [result |-> "raises", file_exists |-> TRUE]
    /\ pc = "returned" /\ Len(posts) = 1
    /\ posts[1].highlights_video_path = "None"

\* C19: the detections of one tracked person in self.player_tracks all carry
\* the same player number, whichever half of the frame the person is in.
C19_SamePersonSameNumber ==
    \A m \in 1..Len(player_tracks) : \A n \in 1..Len(player_tracks) :
        player_tracks[m].person = player_tracks[n].person
            => player_tracks[m].player_id = player_tracks[n].player_id

\* C20: when the frame loop has ended, each tracker has received every frame
\* of the video once, first to last, frame i with timestamp i / fps, and
\* self.frames holds exactly the frames whose index is a multiple of 5, with
\* as many timestamps.
C20_EveryFrameTrackedOnce ==
    pc \in {"classify", "rallies", "analytics", "highlights", "save", "returned"} =>
        /\ Len(player_calls) = video.frame_count
        /\ \A n \in 1..Len(player_calls) :
               player_calls[n] = [frame |-> n - 1,
                                  timestamp |-> Timestamp(n - 1, video.fps)]
        /\ ball_calls = player_calls
        /\ Len(frames) = Cardinality({i \in 0..(video.frame_count - 1) :
                                         i % FrameSampleRate = 0})
        /\ \A n \in 1..Len(frames) : frames[n] = (n - 1) * FrameSampleRate
        /\ Len(frame_timestamps) = Len(frames)

----------------------------------------------------------------------------
(* Vocabulary of the claims about the track table *)

\* timestamp of the last observation of a track
LastSeen(track) == track[Len(track)].timestamp

\* C26: after a track() call at video time t with a detector loaded, no track
\* of the table was last observed more than 1 second before t, and every track
\* observed in the call, or last observed at most 1 second before t, is in the
\* table.
C26_TableHoldsFreshTracksOnly ==
    [][ (detection_model /\ calls' = calls + 1) =>
            /\ \A t \in DOMAIN tracks' : clock' - LastSeen(tracks'[t]) <= 1
            /\ \A n \in 1..Len(detections') : detections'[n].track_id \in DOMAIN tracks'
            /\ \A t \in DOMAIN tracks :
                   clock' - LastSeen(tracks[t]) <= 1 => t \in DOMAIN tracks'
      ]_vars

\* C26 witness: a call without any person box has kept track 1, last observed
\* exactly 1 second before it, and removed track 2, last observed 2 seconds
\* before it
C26_Witness ==
    /\ detection_model
    /\ calls = 3
    /\ detections = <<>>
    /\ DOMAIN tracks = {1}
    /\ clock - LastSeen(tracks[1]) = 1
    /\ 2 \in DOMAIN player_mapping

----------------------------------------------------------------------------
(* Claims about the bounds of the returned rallies *)

\* C27: every rally identify_rallies returns starts at its first shot's
\* timestamp and ends at its last shot's, with end_time >= start_time and
\* duration = end_time - start_time; the rallies come in input order, each a
\* contiguous run of the shot list beginning where the one before it stopped,
\* so each starts no earlier than the one before it ended.
C27_RallyBoundsFollowShots ==
    returned =>
        /\ Len(rally_shots) = Len(rallies)
        /\ \A j \in 1..Len(rallies) :
               LET g == rally_shots[j]
                   r == rallies[j]
               IN  /\ g # <<>>
                   /\ r.start_time = shots[g[1]].timestamp
                   /\ r.end_time = shots[g[Len(g)]].timestamp
                   /\ r.end_time >= r.start_time
                   /\ r.duration = r.end_time - r.start_time
                   /\ \A n \in 1..(Len(g) - 1) : g[n + 1] = g[n] + 1
                   /\ g[1] = IF j = 1 THEN 1
                             ELSE rally_shots[j - 1][Len(rally_shots[j - 1])] + 1
                   /\ j > 1 => r.start_time >= rallies[j - 1].end_time

\* C27 witness: a returned rally of two shots whose first shot had a terminal
\* outcome: it ends at the second shot, later than it starts
C27_Witness ==
    /\ returned
    /\ Len(rallies) = 1
    /\ rallies[1].shot_count = 2
    /\ shots[1].outcome = "winner"
    /\ rallies[1].end_time = shots[2].timestamp
    /\ rallies[1].duration > 0

----------------------------------------------------------------------------
(* Claims about the returned clip list *)

\* the returned clips that contain the window
ClipsHolding(window) ==
    {j \in 1..Len(clips) :
        /\ clips[j].start_time <= window.start_time
        /\ window.end_time <= clips[j].end_time}

----------------------------------------------------------------------------
(* Claims about failures inside the frame loop *)

\* C23: when the person detector raises on a frame, track() gives no
\* observation for that frame and the run goes on with the next frame: the
\* request never ends with the detector's exception.
C23_DetectorErrorOmitsFrame ==
    ~(pc = "raised" /\ response.detail = <<"person detector error">>)

\* C22: an unreadable frame is skipped and the loop goes on with the frames
\* that follow it: when the frame loop of a video with a single unreadable
\* frame has ended without failing the run, every frame behind the unreadable
\* one has been given to the player tracker.
C22_UnreadableFrameSkipped ==
    (pc = "classify" /\ video.unreadable < video.frame_count) =>
        \A k \in (video.unreadable + 1)..(video.frame_count - 1) :
            \E n \in 1..Len(player_calls) : player_calls[n].frame = k

----------------------------------------------------------------------------
(* Claims about the shot classifier *)

\* C21: once the stroke model has raised on a batch, no later batch is given
\* to it, and the shots of the frames behind that batch are made by the
\* heuristic contact rule.
C21_FallsBackToHeuristic ==
    \A r \in cls_raised :
        /\ \A n \in 1..Len(cls_sent) : cls_sent[n] <= r
        /\ \A n \in 1..Len(cls_shots) :
               (cls_shots[n].frame # NoKey /\ cls_shots[n].frame >= r)
                   => cls_shots[n].by = "heuristic"

----------------------------------------------------------------------------
(* Claims about the ball tracker *)

OppositeSigns(a, b) == (a > 0 /\ b < 0) \/ (a < 0 /\ b > 0)

\* C24: the detection of a frame has is_bounce set exactly when the vertical
\* velocity of its filtered state and that of the frame immediately before
\* it have opposite signs and differ by more than 30.
C24_BounceAgainstPrecedingFrame ==
    \A k \in 2..Len(trajectory_history) :
        trajectory_history[k].is_bounce
            <=> /\ OppositeSigns(trajectory_history[k - 1].vy, trajectory_history[k].vy)
                /\ Abs(trajectory_history[k].vy - trajectory_history[k - 1].vy) > 30

\* C25: after n calls of track(), total_frames = n; detection_count grows by
\* at most one per call, so 0 <= detection_count <= total_frames, and it is the
\* number of calls in which a position was found; get_detection_rate() is
\* detection_count / total_frames, 0 before the first call; and
\* trajectory_history holds the min(n, 60) latest detections in frame order.
C25_CountersAndRingBuffer ==
    /\ total_frames = ball_n
    /\ 0 <= detection_count /\ detection_count <= total_frames
    /\ ball_n <= 60 =>
           detection_count = Cardinality({k \in 1..Len(trajectory_history) :
                                             trajectory_history[k].is_detected})
    /\ ball_n = 0 => GetDetectionRate = 0
    /\ GetDetectionRate * total_frames <= detection_count * 1000
    /\ ball_n > 0 => detection_count * 1000 < (GetDetectionRate + 1) * total_frames
    /\ Len(trajectory_history) = IF ball_n < 60 THEN ball_n ELSE 60
    /\ \A k \in 1..Len(trajectory_history) :
           trajectory_history[k].timestamp = ball_n - Len(trajectory_history) + k

\* C25 witness: more than 60 calls were made, the ball was found in some of
\* them, and the history begins with the detection of 59 calls ago
C25_Witness ==
    /\ ball_n > 60
    /\ Len(trajectory_history) = 60
    /\ trajectory_history[1].timestamp = ball_n - 59
    /\ ball_detection = trajectory_history[60]
    /\ 0 < detection_count /\ detection_count < total_frames

----------------------------------------------------------------------------
(* Claims about the stored state of a match *)

\* C29: once the dispatching task has marked the match FAILED, the stored
\* status stays FAILED until a new processing run is started: no read and no
\* late save-from-ml call of the failed run changes it.
C29_FailedStaysFailed ==
    [][ (task_failed /\ task_failed' /\ m_status = "failed") => m_status' = "failed" ]_vars

====
